---- MODULE Spec2Model ----
(***************************************************************************)
(* Model of the C4 diagram synthesis engine of SpecForge (C4Service):      *)
(* extractArchitecture, generateC4Diagrams, the three level builders, the  *)
(* Mermaid renderers, the fallback architecture and the diagram store.     *)
(*                                                                         *)
(* Text that the code searches (requirement titles and descriptions,       *)
(* container responsibilities, component capabilities) is a sequence of    *)
(* one-character strings; text that the code only copies (names, labels,   *)
(* ids) is a TLA+ string.  The generatedAt timestamps are not modelled.    *)
(***************************************************************************)
EXTENDS Integers, Sequences, FiniteSets, TLC

VARIABLES
    prompts,        \* prompt id -> [registered, content, version]: metadata.json
                    \* and the prompt files
    history,        \* history file name -> [version, content]: the history dir
    pc,             \* run -> "idle" | "extracting" | "done" | "failed"
    projectId,      \* run -> project id argument of generateC4Diagrams
    requirements,   \* run -> requirements argument of generateC4Diagrams
    response,       \* run -> outcome of the chat completion call
    architecture,   \* run -> value returned by extractArchitecture
    result,         \* run -> settled value of the generateC4Diagrams promise
    store,          \* project id -> [exists, files, index]: the c4-diagrams dir
    loaded,         \* settled value of the last getDiagrams call
    counters,       \* specification type -> counter: config.counters of .specforge
    calls           \* the calls made on the project file service, with the ids
                    \* generateNextSpecificationId returned

vars == <<prompts, history, pc, projectId, requirements, response, architecture,
          result, store, loaded, counters, calls>>

----------------------------------------------------------------------------
(* Bounds *)

MaxReqs == 2        \* longest requirement list drawn as input
MaxVersion == 3     \* updatePrompt is not called on a prompt of this version

----------------------------------------------------------------------------
(* JavaScript values *)

Undefined == "<undefined>"
NoFile    == "<no file>"
None      == [kind |-> "none"]

Has(o, f) == f \in DOMAIN o

Falsy(x) == x = Undefined \/ x = ""

Upper == <<"A","B","C","D","E","F","G","H","I","J","K","L","M",
           "N","O","P","Q","R","S","T","U","V","W","X","Y","Z">>
Lower == <<"a","b","c","d","e","f","g","h","i","j","k","l","m",
           "n","o","p","q","r","s","t","u","v","w","x","y","z">>

ToLowerChar(c) ==
    IF \E i \in 1..26 : Upper[i] = c
    THEN Lower[CHOOSE i \in 1..26 : Upper[i] = c]
    ELSE c

\* String.prototype.toLowerCase
ToLowerCase(s) == [i \in 1..Len(s) |-> ToLowerChar(s[i])]

\* String.prototype.includes
Includes(s, t) ==
    \E i \in 0..(Len(s) - Len(t)) : SubSeq(s, i + 1, i + Len(t)) = t

\* Array.prototype.map over a sequence
Map(F(_), s) == [i \in 1..Len(s) |-> F(s[i])]

RECURSIVE Flatten(_)
Flatten(ss) == IF ss = <<>> THEN <<>> ELSE Head(ss) \o Flatten(Tail(ss))

Range(s) == {s[i] : i \in 1..Len(s)}

----------------------------------------------------------------------------
(* Searchable texts used by the inputs *)

TxtDisplayUI       == <<"D","i","s","p","l","a","y"," ","U","I">>
TxtHandleUserInput == <<"H","a","n","d","l","e"," ","u","s","e","r"," ","i","n","p","u","t">>
TxtBusinessLogic   == <<"B","u","s","i","n","e","s","s"," ","l","o","g","i","c">>
TxtDataAccess      == <<"D","a","t","a"," ","a","c","c","e","s","s">>
TxtUserLogin       == <<"U","s","e","r"," ","l","o","g","i","n">>
TxtUserAuth        == <<"u","s","e","r"," ","a","u","t","h","e","n","t","i","c","a","t","e","s">>
TxtDisplayTheme    == <<"d","i","s","p","l","a","y"," ","u","i"," ","t","h","e","m","e">>
TxtLog             == <<"L","o","g">>
TxtLogin           == <<"l","o","g","i","n">>
TxtToken           == <<"t","o","k","e","n">>
TxtAuthenticat     == <<"A","u","t","h","e","n","t","i","c","a","t">>
TxtStore           == <<"s","t","o","r","e">>
TxtStoresData      == <<"S","t","o","r","e","s"," ","d","a","t","a">>

----------------------------------------------------------------------------
(* Requirements drawn as input *)

ReqLogin   == [id |-> "US-00001", type |-> "USER_STORY",
               title |-> TxtUserLogin, description |-> TxtUserAuth]
ReqDisplay == [id |-> "US-00002", type |-> "USER_STORY",
               title |-> TxtDisplayTheme, description |-> TxtStoresData]
ReqLog     == [id |-> "FR-00001", type |-> "FUNCTIONAL",
               title |-> TxtLog, description |-> TxtStore]
ReqLoginB  == [id |-> "US-00001", type |-> "USER_STORY",
               title |-> TxtToken, description |-> TxtLog]

ReqSet == {ReqLogin, ReqDisplay, ReqLog, ReqLoginB}

ReqLists == UNION {[1..n -> ReqSet] : n \in 0..MaxReqs}

ProjectIds == {"projA", "projB"}

----------------------------------------------------------------------------
(* Extracted architectures.  level3_components and level3_relationships    *)
(* are JSON objects: a sequence of [key, value] entries in key order with  *)
(* pairwise distinct keys.                                                 *)

HasKey(obj, key) == \E i \in 1..Len(obj) : obj[i].key = key

\* obj[key], for a key the object has
Get(obj, key) == obj[CHOOSE i \in 1..Len(obj) : obj[i].key = key].value

Keys(obj) == [i \in 1..Len(obj) |-> obj[i].key]

Person(id, name, role) ==
    [id |-> id, name |-> name, role |-> role,
     description |-> "Interacts with the system", interactions |-> <<"use system">>]

ExternalSystem(id, name, protocol) ==
    [id |-> id, name |-> name, type |-> "API", description |-> "external",
     protocol |-> protocol]

Rel(from, to, label, protocol) ==
    [from |-> from, to |-> to, label |-> label, protocol |-> protocol,
     dataFlow |-> Undefined, pattern |-> Undefined]

Container(id, name, technology, description, responsibilities, dependencies) ==
    [id |-> id, name |-> name, type |-> name, technology |-> technology,
     description |-> description, responsibilities |-> responsibilities,
     dependencies |-> dependencies]

Component(id, name, capabilities) ==
    [id |-> id, name |-> name, type |-> "Service", technology |-> "TypeScript",
     description |-> "component", capabilities |-> capabilities,
     dependencies |-> <<>>]

\* Variant: the fallback containers declare no responsibilities.
getFallbackArchitectureBare ==
    [level1_context |->
        [system |-> [name |-> "System",
                     description |-> "Main system based on requirements",
                     scope |-> "To be defined"],
         people |-> <<[id |-> "user", name |-> "User", role |-> "End User",
                       description |-> "Interacts with the system",
                       interactions |-> <<"use system">>]>>,
         external_systems |-> <<>>,
         relationships |-> <<Rel("user", "system", "Uses", "HTTPS")>>],
     level2_containers |->
        <<Container("webapp", "Web Application", "Web Browser", "User interface",
                    <<>>, <<"api">>),
          Container("api", "API", "REST API", "Backend API", <<>>, <<>>)>>,
     level2_relationships |-> <<Rel("webapp", "api", "Makes API calls", "HTTPS")>>,
     level3_components |-> <<>>,
     level3_relationships |-> <<>>]

getFallbackArchitecture ==
    [level1_context |->
        [system |-> [name |-> "System",
                     description |-> "Main system based on requirements",
                     scope |-> "To be defined"],
         people |-> <<[id |-> "user", name |-> "User", role |-> "End User",
                       description |-> "Interacts with the system",
                       interactions |-> <<"use system">>]>>,
         external_systems |-> <<>>,
         relationships |-> <<Rel("user", "system", "Uses", "HTTPS")>>],
     level2_containers |->
        <<Container("webapp", "Web Application", "Web Browser", "User interface",
                    <<TxtDisplayUI, TxtHandleUserInput>>, <<"api">>),
          Container("api", "API", "REST API", "Backend API",
                    <<TxtBusinessLogic, TxtDataAccess>>, <<>>)>>,
     level2_relationships |-> <<Rel("webapp", "api", "Makes API calls", "HTTPS")>>,
     level3_components |-> <<>>,
     level3_relationships |-> <<>>]

\* Scenario B of the specification, with a second container without
\* components, one external system referenced at level 2 and one that is not.
ArchAuth ==
    [level1_context |->
        [system |-> [name |-> "Shop", description |-> "Web shop", scope |-> "Sales"],
         people |-> <<Person("customer", "Customer", "Buyer")>>,
         external_systems |-> <<ExternalSystem("idp", "Identity Provider", "OIDC"),
                                ExternalSystem("mail", "Mail Gateway", Undefined)>>,
         relationships |-> <<Rel("customer", "system", "Shops", "HTTPS"),
                             Rel("main-system", "mail", "Sends mail", Undefined)>>],
     level2_containers |->
        <<Container("auth", "Auth Service", "Node", "Authentication",
                    <<TxtAuthenticat>>, <<"db">>),
          Container("db", "Database", "", "Storage", <<TxtStore>>, <<>>)>>,
     level2_relationships |-> <<Rel("auth", "db", "Reads", Undefined),
                                Rel("auth", "idp", "Delegates", "OIDC")>>,
     level3_components |->
        <<[key |-> "auth", value |-> <<Component("login-ui", "Login UI", <<TxtLogin>>),
                                       Component("auth-api", "Auth API", <<TxtToken>>)>>],
          [key |-> "db", value |-> <<>>]>>,
     level3_relationships |->
        <<[key |-> "auth", value |-> <<Rel("login-ui", "auth-api", "Calls", Undefined)>>]>>]

\* Relationships whose endpoints are declared nowhere, at every level; an
\* external system that is only the source of a level-2 relationship.
ArchDangling ==
    [level1_context |->
        [system |-> [name |-> "Shop", description |-> "Web shop", scope |-> "Sales"],
         people |-> <<Person("customer", "Customer", "Buyer")>>,
         external_systems |-> <<ExternalSystem("erp", "ERP", "SOAP")>>,
         relationships |-> <<Rel("auditor", "system", "Audits", Undefined)>>],
     level2_containers |->
        <<Container("api", "API", "REST API", "Backend API", <<TxtLogin, TxtStore>>, <<>>)>>,
     level2_relationships |-> <<Rel("erp", "api", "Pushes orders", Undefined),
                                Rel("api", "ghost", "Calls", Undefined)>>,
     level3_components |->
        <<[key |-> "api", value |-> <<Component("orders", "Orders", <<TxtLog>>)>>]>>,
     level3_relationships |->
        <<[key |-> "api", value |-> <<Rel("orders", "billing", "Invoices", "event")>>]>>]

\* Two containers declared with the same id, components declared for a key
\* that names no container, and a level-3 relationship list without components.
ArchDuplicate ==
    [level1_context |->
        [system |-> [name |-> "Shop", description |-> "Web shop", scope |-> "Sales"],
         people |-> <<>>,
         external_systems |-> <<ExternalSystem("idp", "Identity Provider", "OIDC")>>,
         relationships |-> <<>>],
     level2_containers |->
        <<Container("web", "Web", "React", "Front end", <<TxtDisplayUI>>, <<>>),
          Container("web", "Web Copy", "Vue", "Second front end", <<TxtToken>>, <<>>),
          Container("jobs", "Jobs", "Node", "Workers", <<>>, <<>>)>>,
     level2_relationships |-> <<Rel("web", "jobs", "Enqueues", Undefined)>>,
     level3_components |->
        <<[key |-> "ghost", value |-> <<Component("phantom", "Phantom", <<TxtLog>>)>>],
          [key |-> "web", value |-> <<Component("page", "Page", <<TxtDisplayUI>>),
                                      Component("page", "Page Copy", <<TxtLogin>>)>>]>>,
     level3_relationships |-> <<>>]

\* Two containers with components each, and a level-1 relationship that
\* names the system itself as its source.
ArchTwoTier ==
    [level1_context |->
        [system |-> [name |-> "Shop", description |-> "Web shop", scope |-> "Sales"],
         people |-> <<Person("customer", "Customer", "Buyer")>>,
         external_systems |-> <<ExternalSystem("erp", "ERP", "SOAP")>>,
         relationships |-> <<Rel("customer", "system", "Shops", "HTTPS"),
                             Rel("system", "erp", "Exports orders", "SOAP")>>],
     level2_containers |->
        <<Container("web", "Web", "React", "Front end", <<TxtDisplayUI>>, <<"api">>),
          Container("api", "API", "Node", "Backend API", <<TxtStore>>, <<>>)>>,
     level2_relationships |-> <<Rel("web", "api", "Calls", "HTTPS")>>,
     level3_components |->
        <<[key |-> "web", value |-> <<Component("page", "Page", <<TxtDisplayUI>>)>>],
          [key |-> "api", value |-> <<Component("orders", "Orders", <<TxtLog>>)>>]>>,
     level3_relationships |-> <<>>]

\* A complete response with every array empty.
ArchEmpty ==
    [level1_context |->
        [system |-> [name |-> "Shop", description |-> "Web shop", scope |-> "Sales"],
         people |-> <<>>, external_systems |-> <<>>, relationships |-> <<>>],
     level2_containers |-> <<>>,
     level2_relationships |-> <<>>,
     level3_components |-> <<>>,
     level3_relationships |-> <<>>]

CompleteArchs == {ArchAuth, ArchDangling, ArchDuplicate, ArchTwoTier, ArchEmpty}

\* The object o without its property f.
Without(o, f) == [k \in DOMAIN o \ {f} |-> o[k]]

TopFields     == {"level1_context", "level2_containers", "level2_relationships",
                  "level3_components", "level3_relationships"}
ContextFields == {"system", "people", "external_systems", "relationships"}

\* Responses that parse but lack a required record, array or map.
IncompleteArchs ==
    {Without(a, f) : a \in {ArchAuth, ArchEmpty}, f \in TopFields}
    \cup {[a EXCEPT !.level1_context = Without(a.level1_context, f)] :
             a \in {ArchAuth}, f \in ContextFields}

EmptyObject == [k \in {} |-> Undefined]

IsComplete(a) ==
    /\ \A f \in TopFields : Has(a, f)
    /\ \A f \in ContextFields : Has(a.level1_context, f)

----------------------------------------------------------------------------
(* Traceability filter of the container and component builders *)

ReqId(r) == r.id

\* Variant: only the title is searched.
KeywordMatchesTitleOnly(r, k) ==
    Includes(ToLowerCase(r.title), ToLowerCase(k))

\* r.title.toLowerCase().includes(k.toLowerCase()) ||
\* r.description.toLowerCase().includes(k.toLowerCase())
KeywordMatches(r, k) ==
    \/ Includes(ToLowerCase(r.title), ToLowerCase(k))
    \/ Includes(ToLowerCase(r.description), ToLowerCase(k))

\* requirements.filter(r => keywords.some(k => ...)).map(r => r.id)
MatchingRequirementIds(reqs, keywords) ==
    LET Hit(r) == \E i \in 1..Len(keywords) : KeywordMatches(r, keywords[i])
    IN  Map(ReqId, SelectSeq(reqs, Hit))

----------------------------------------------------------------------------
(* Mermaid renderers.  A line is the tuple of its text fragments; the empty *)
(* tuple is an empty line.                                                  *)

TechSuffix(technology) == IF Falsy(technology) THEN <<>> ELSE <<technology>>

RelLine(rel) ==
    <<"Rel", rel.from, rel.to, rel.label>> \o TechSuffix(rel.technology)

SystemExtLine(el) ==
    <<"System_Ext", el.id, el.name>> \o el.description \o TechSuffix(el.technology)

generateMermaidLevel1(elements, relationships) ==
    LET IsMain(e)   == e.type = "system" /\ e.id = "main-system"
        IsPerson(e) == e.type = "person"
        IsExt(e)    == e.type = "system" /\ e.id # "main-system"
        mains       == SelectSeq(elements, IsMain)
        MainLine(e) == <<"System", e.id, e.name>> \o e.description
        PersonLine(e) == <<"Person", e.id, e.name>> \o e.description
        ExtLine(e)  == <<"System_Ext", e.id, e.name>> \o e.description
                       \o (IF Has(e, "technology") THEN TechSuffix(e.technology) ELSE <<>>)
    IN  <<<<"C4Context">>, <<"title System Context Diagram">>, <<>>>>
        \o (IF mains # <<>> THEN <<MainLine(mains[1]), <<>>>> ELSE <<>>)
        \o Map(PersonLine, SelectSeq(elements, IsPerson))
        \o Map(ExtLine, SelectSeq(elements, IsExt))
        \o << <<>> >>
        \o Map(RelLine, relationships)

\* Variant: the external systems are not rendered.
generateMermaidLevel2ContainersOnly(elements, relationships) ==
    LET IsContainer(e) == e.type = "container"
        ContainerLine(e) ==
            <<"Container", e.id, e.name,
              IF Falsy(e.technology) THEN "Technology" ELSE e.technology>>
            \o e.description
    IN  <<<<"C4Container">>, <<"title Container Diagram">>, <<>>,
          <<"System_Boundary", "system", "System">>>>
        \o Map(ContainerLine, SelectSeq(elements, IsContainer))
        \o <<<<"}">>, <<>>, <<>>>>
        \o Map(RelLine, relationships)

generateMermaidLevel2(elements, relationships) ==
    LET IsContainer(e) == e.type = "container"
        IsSystem(e)    == e.type = "system"
        ContainerLine(e) ==
            <<"Container", e.id, e.name,
              IF Falsy(e.technology) THEN "Technology" ELSE e.technology>>
            \o e.description
    IN  <<<<"C4Container">>, <<"title Container Diagram">>, <<>>,
          <<"System_Boundary", "system", "System">>>>
        \o Map(ContainerLine, SelectSeq(elements, IsContainer))
        \o <<<<"}">>, <<>>>>
        \o Map(SystemExtLine, SelectSeq(elements, IsSystem))
        \o << <<>> >>
        \o Map(RelLine, relationships)

generateMermaidLevel3(containerName, elements, relationships) ==
    LET ComponentLine(e) ==
            <<"Component", e.id, e.name,
              IF Falsy(e.technology) THEN "Component" ELSE e.technology>>
            \o e.description
    IN  <<<<"C4Component">>, <<"title Component Diagram - ", containerName>>, <<>>,
          <<"Container_Boundary", "container", containerName>>>>
        \o Map(ComponentLine, elements)
        \o <<<<"}">>, <<>>>>
        \o Map(RelLine, relationships)

----------------------------------------------------------------------------
(* Level 1: buildLevel1Diagram *)

SystemId == "main-system"

\* Property reads of buildLevel1Diagram that raise a TypeError.
Level1Throws(arch) ==
    \/ ~Has(arch, "level1_context")
    \/ ~Has(arch.level1_context, "system")
    \/ ~Has(arch, "level2_containers")
    \/ ~Has(arch.level1_context, "people")
    \/ ~Has(arch.level1_context, "external_systems")
    \/ ~Has(arch.level1_context, "relationships")

ElementId(e) == e.id

\* Variant: the system element does not list the containers.
Level1ElementsWithoutChildren(arch, reqs) ==
    LET PersonElement(p) ==
            [id |-> p.id, type |-> "person", name |-> p.name,
             description |-> <<p.role, ": ", p.description>>,
             requirements |-> <<>>]
        ExternalElement(s) ==
            [id |-> s.id, type |-> "system", name |-> s.name,
             description |-> <<s.description>>, technology |-> s.protocol,
             requirements |-> <<>>]
    IN  <<[id |-> SystemId, type |-> "system",
           name |-> arch.level1_context.system.name,
           description |-> <<arch.level1_context.system.description>>,
           requirements |-> Map(ReqId, reqs),
           children |-> <<>>]>>
        \o Map(PersonElement, arch.level1_context.people)
        \o Map(ExternalElement, arch.level1_context.external_systems)

Level1Elements(arch, reqs) ==
    LET PersonElement(p) ==
            [id |-> p.id, type |-> "person", name |-> p.name,
             description |-> <<p.role, ": ", p.description>>,
             requirements |-> <<>>]
        ExternalElement(s) ==
            [id |-> s.id, type |-> "system", name |-> s.name,
             description |-> <<s.description>>, technology |-> s.protocol,
             requirements |-> <<>>]
    IN  <<[id |-> SystemId, type |-> "system",
           name |-> arch.level1_context.system.name,
           description |-> <<arch.level1_context.system.description>>,
           requirements |-> Map(ReqId, reqs),
           children |-> Map(ElementId, arch.level2_containers)]>>
        \o Map(PersonElement, arch.level1_context.people)
        \o Map(ExternalElement, arch.level1_context.external_systems)

\* Variant: the "system" placeholder is not rewritten.
Level1RelationshipsVerbatim(arch) ==
    LET Convert(rel) ==
            [from |-> rel.from, to |-> rel.to,
             label |-> rel.label, technology |-> rel.protocol]
    IN  Map(Convert, arch.level1_context.relationships)

Level1Relationships(arch) ==
    LET Convert(rel) ==
            [from |-> rel.from,
             to |-> IF rel.to = "system" THEN SystemId ELSE rel.to,
             label |-> rel.label, technology |-> rel.protocol]
    IN  Map(Convert, arch.level1_context.relationships)

buildLevel1Diagram(arch, reqs) ==
    LET elements      == Level1Elements(arch, reqs)
        relationships == Level1Relationships(arch)
    IN  [id |-> <<"level1-context">>, level |-> 1, type |-> "context",
         title |-> <<"System Context Diagram">>,
         description |-> <<arch.level1_context.system.scope>>,
         mermaidCode |-> generateMermaidLevel1(elements, relationships),
         elements |-> elements, relationships |-> relationships,
         requirementReferences |-> Map(ReqId, reqs)]

----------------------------------------------------------------------------
(* Level 2: buildLevel2Diagrams *)

\* Property reads of buildLevel2Diagrams that raise a TypeError (after
\* buildLevel1Diagram has returned).
Level2Throws(arch) ==
    \/ arch.level2_containers # <<>> /\ ~Has(arch, "level3_components")
    \/ ~Has(arch, "level2_relationships")

\* Variant: the components of every container, whatever the container.
Level2ChildrenOfAll(arch, container) ==
    LET Ids(entry) == Map(ElementId, entry.value)
    IN  Flatten(Map(Ids, arch.level3_components))

\* arch.level3_components[container.id]?.map(c => c.id) || []
Level2Children(arch, container) ==
    IF HasKey(arch.level3_components, container.id)
    THEN Map(ElementId, Get(arch.level3_components, container.id))
    ELSE <<>>

\* Variant: only the source of a relationship counts.
ReferencedAtLevel2AsSource(arch, sys) ==
    \E i \in 1..Len(arch.level2_relationships) :
        arch.level2_relationships[i].from = sys.id

\* arch.level2_relationships.some(r => r.from === sys.id || r.to === sys.id)
ReferencedAtLevel2(arch, sys) ==
    \E i \in 1..Len(arch.level2_relationships) :
        \/ arch.level2_relationships[i].from = sys.id
        \/ arch.level2_relationships[i].to = sys.id

Level2Elements(arch, reqs) ==
    LET ContainerElement(c) ==
            [id |-> c.id, type |-> "container", name |-> c.name,
             description |-> <<c.description>>, technology |-> c.technology,
             requirements |-> MatchingRequirementIds(reqs, c.responsibilities),
             children |-> Level2Children(arch, c)]
        ExternalElement(s) ==
            [id |-> s.id, type |-> "system", name |-> s.name,
             description |-> <<s.description>>, technology |-> s.protocol,
             requirements |-> <<>>]
        Referenced(s) == ReferencedAtLevel2(arch, s)
    IN  Map(ContainerElement, arch.level2_containers)
        \o Map(ExternalElement, SelectSeq(arch.level1_context.external_systems, Referenced))

Level2Relationships(arch) ==
    LET Convert(rel) ==
            [from |-> rel.from, to |-> rel.to, label |-> rel.label,
             technology |-> IF Falsy(rel.protocol) THEN rel.dataFlow ELSE rel.protocol]
    IN  Map(Convert, arch.level2_relationships)

buildLevel2Diagrams(arch, reqs) ==
    LET elements      == Level2Elements(arch, reqs)
        relationships == Level2Relationships(arch)
    IN  <<[id |-> <<"level2-containers">>, level |-> 2, type |-> "container",
           title |-> <<"Container Diagram">>,
           description |-> <<"Deployable units and their interactions">>,
           mermaidCode |-> generateMermaidLevel2(elements, relationships),
           elements |-> elements, relationships |-> relationships,
           requirementReferences |-> Map(ReqId, reqs),
           parentId |-> SystemId]>>

----------------------------------------------------------------------------
(* Level 3: buildLevel3Diagrams *)

\* arch.level2_containers.find(c => c.id === containerId), for the id of a
\* declared container
FindContainer(arch, containerId) ==
    LET Found(c) == c.id = containerId
    IN  SelectSeq(arch.level2_containers, Found)[1]

\* The keys of level3_components for which the forEach body does not return
\* early, in key order.
Level3ContainerIds(arch) ==
    LET Qualifies(containerId) ==
            /\ Get(arch.level3_components, containerId) # <<>>
            /\ \E i \in 1..Len(arch.level2_containers) :
                   arch.level2_containers[i].id = containerId
    IN  SelectSeq(Keys(arch.level3_components), Qualifies)

\* Property reads of buildLevel3Diagrams that raise a TypeError (after
\* buildLevel2Diagrams has returned).
Level3Throws(arch) ==
    \/ ~Has(arch, "level3_components")
    \/ Level3ContainerIds(arch) # <<>> /\ ~Has(arch, "level3_relationships")

\* Variant: components are not traced to requirements.
Level3ElementsUntraced(reqs, components) ==
    LET ComponentElement(comp) ==
            [id |-> comp.id, type |-> "component", name |-> comp.name,
             description |-> <<comp.description>>, technology |-> comp.technology,
             requirements |-> <<>>]
    IN  Map(ComponentElement, components)

Level3Elements(reqs, components) ==
    LET ComponentElement(comp) ==
            [id |-> comp.id, type |-> "component", name |-> comp.name,
             description |-> <<comp.description>>, technology |-> comp.technology,
             requirements |-> MatchingRequirementIds(reqs, comp.capabilities)]
    IN  Map(ComponentElement, components)

\* (arch.level3_relationships[containerId] || []).map(...)
Level3Relationships(arch, containerId) ==
    LET Convert(rel) ==
            [from |-> rel.from, to |-> rel.to, label |-> rel.label,
             technology |-> rel.pattern]
    IN  IF HasKey(arch.level3_relationships, containerId)
        THEN Map(Convert, Get(arch.level3_relationships, containerId))
        ELSE <<>>

\* requirements.filter(r => elements.some(e => e.requirements.includes(r.id)))
\*             .map(r => r.id)
Level3RequirementReferences(reqs, elements) ==
    LET Referenced(r) ==
            \E i \in 1..Len(elements) : r.id \in Range(elements[i].requirements)
    IN  Map(ReqId, SelectSeq(reqs, Referenced))

\* Variant used for the ids of a run: one id for every component diagram.
Level3DiagramIdFixed(containerId) == <<"level3-", "container">>

\* `level3-${containerId}`
Level3DiagramId(containerId) == <<"level3-", containerId>>

buildLevel3Diagrams(arch, reqs) ==
    LET Build(containerId) ==
            LET container     == FindContainer(arch, containerId)
                elements      == Level3Elements(reqs, Get(arch.level3_components, containerId))
                relationships == Level3Relationships(arch, containerId)
            IN  [id |-> Level3DiagramId(containerId), level |-> 3, type |-> "component",
                 title |-> <<"Component Diagram - ", container.name>>,
                 description |-> <<"Internal components of ", container.name>>,
                 mermaidCode |->
                     generateMermaidLevel3(container.name, elements, relationships),
                 elements |-> elements, relationships |-> relationships,
                 requirementReferences |-> Level3RequirementReferences(reqs, elements),
                 parentId |-> containerId]
    IN  Map(Build, Level3ContainerIds(arch))

----------------------------------------------------------------------------
(* Diagram store: saveDiagrams *)

EmptyDir == [exists |-> FALSE, files |-> <<>>, index |-> None]

\* Variant used for the isolation of projects: one directory for all.
DiagramDirShared(p) == "projA"

\* path.join(this.projectsDir, projectId, 'c4-diagrams'): one directory per
\* project id
DiagramDir(p) == p

\* JSON.parse(JSON.stringify(o)) of an object: a property whose value is
\* undefined is not written.
OptionalFields == {"technology", "parentId"}

DropUndefined(o) ==
    [k \in {f \in DOMAIN o : ~(f \in OptionalFields /\ o[f] = Undefined)} |-> o[k]]

\* JSON.parse(JSON.stringify(diagram))
Jsonify(d) ==
    [DropUndefined(d) EXCEPT !.elements = Map(DropUndefined, @),
                             !.relationships = Map(DropUndefined, @)]

\* Variant used for overlapping runs: a body that exists is not rewritten.
RECURSIVE WriteBodiesKeepExisting(_, _)
WriteBodiesKeepExisting(files, diagrams) ==
    IF diagrams = <<>> THEN files
    ELSE LET d == Head(diagrams)
         IN  WriteBodiesKeepExisting(
                 [f \in (DOMAIN files) \cup {d.id} |->
                     IF f \in DOMAIN files THEN files[f] ELSE Jsonify(d)],
                 Tail(diagrams))

\* diagrams.forEach(diagram => fs.writeFileSync(`${diagram.id}.json`, ...))
RECURSIVE WriteBodies(_, _)
WriteBodies(files, diagrams) ==
    IF diagrams = <<>> THEN files
    ELSE LET d == Head(diagrams)
         IN  WriteBodies([f \in (DOMAIN files) \cup {d.id} |->
                             IF f = d.id THEN Jsonify(d) ELSE files[f]],
                         Tail(diagrams))

\* Variant: an index entry does not carry the parent.
IndexEntryWithoutParent(d) ==
    [id |-> d.id, level |-> d.level, type |-> d.type, title |-> d.title]

IndexEntry(d) ==
    DropUndefined(
        [id |-> d.id, level |-> d.level, type |-> d.type, title |-> d.title,
         parentId |-> IF Has(d, "parentId") THEN d.parentId ELSE Undefined])

\* Variant used for the replacement of the index: the entries are added to
\* those of the index on disk.
saveDiagramsAppendingIndex(dir, diagrams) ==
    [exists |-> TRUE,
     files  |-> WriteBodies(dir.files, diagrams),
     index  |-> [kind |-> "index",
                 diagrams |-> (IF dir.index = None THEN <<>> ELSE dir.index.diagrams)
                                  \o Map(IndexEntry, diagrams)]]

saveDiagrams(dir, diagrams) ==
    [exists |-> TRUE,
     files  |-> WriteBodies(dir.files, diagrams),
     index  |-> [kind |-> "index", diagrams |-> Map(IndexEntry, diagrams)]]

\* Variant used for the write order: index.json is written before the bodies.
\* Of writes+1 writes the first k succeed and the next one throws.
saveDiagramsInterruptedIndexFirst(dir, diagrams, k) ==
    [exists |-> TRUE,
     files  |-> IF k = 0 THEN dir.files
                ELSE WriteBodies(dir.files, SubSeq(diagrams, 1, k - 1)),
     index  |-> IF k = 0 THEN dir.index
                ELSE [kind |-> "index", diagrams |-> Map(IndexEntry, diagrams)]]

\* saveDiagrams when a writeFileSync throws: the first k bodies are written,
\* 0 <= k <= diagrams.length; with k = diagrams.length it is the write of
\* index.json that throws.
saveDiagramsInterrupted(dir, diagrams, k) ==
    [exists |-> TRUE,
     files  |-> WriteBodies(dir.files, SubSeq(diagrams, 1, k)),
     index  |-> dir.index]

\* getDiagrams: the bodies of the index entries whose file exists
getDiagrams(dir) ==
    IF ~dir.exists \/ dir.index = None THEN <<>>
    ELSE LET BodyExists(ref) == ref.id \in DOMAIN dir.files
             Body(ref) == dir.files[ref.id]
         IN  Map(Body, SelectSeq(dir.index.diagrams, BodyExists))

----------------------------------------------------------------------------
(* Prompt directory: PromptService.getPrompt / getPromptContent *)

ArchitecturePromptId == "architecture-c4-extraction"

\* A second prompt, created through createPrompt as a variant of the first
ArchitectureV2PromptId == "architecture-c4-extraction_v2"

PromptIds == {ArchitecturePromptId, ArchitectureV2PromptId}

\* null when the prompt is not in metadata.json or its file does not exist
getPromptContent(dir, promptId) ==
    IF dir[promptId].registered /\ dir[promptId].content # NoFile
    THEN dir[promptId].content
    ELSE Undefined

\* createPrompt has not been called for the prompt
NotCreated == [registered |-> FALSE, content |-> NoFile, version |-> 1]

\* metadata entries as createPrompt leaves them (version: 1), the prompt
\* file present, empty or missing
CreatedPrompts ==
    {[registered |-> TRUE, content |-> "Extract C4 from {{TEXT}}", version |-> 1],
     [registered |-> TRUE, content |-> "", version |-> 1],
     [registered |-> TRUE, content |-> NoFile, version |-> 1]}

\* The prompt directories generateC4Diagrams is run against
PromptDirs ==
    {[p \in PromptIds |-> IF p = ArchitecturePromptId THEN c ELSE NotCreated] :
        c \in CreatedPrompts \cup {NotCreated}}

----------------------------------------------------------------------------
(* Prompt history: updatePrompt, getPromptVersions, rollbackToVersion *)

\* The characters of a prompt id
ArchitectureChars ==
    <<"a","r","c","h","i","t","e","c","t","u","r","e","-","c","4","-",
      "e","x","t","r","a","c","t","i","o","n">>

PromptIdText(p) ==
    IF p = ArchitecturePromptId THEN ArchitectureChars
    ELSE ArchitectureChars \o <<"_", "v", "2">>

\* String(n) for a non-negative integer
Digit(n) ==
    CASE n = 0 -> "0" [] n = 1 -> "1" [] n = 2 -> "2" [] n = 3 -> "3"
      [] n = 4 -> "4" [] n = 5 -> "5" [] n = 6 -> "6" [] n = 7 -> "7"
      [] n = 8 -> "8" [] n = 9 -> "9"

RECURSIVE ToDecimal(_)
ToDecimal(n) ==
    IF n < 10 THEN <<Digit(n)>> ELSE ToDecimal(n \div 10) \o <<Digit(n % 10)>>

\* Values of Date.now() at the moment of an update
Clock == {1, 2}

TxtSuffix == <<".", "t", "x", "t">>

\* `${promptId}_v${promptMeta.version}_${Date.now()}.txt`
HistoryFilename(p, version, now) ==
    PromptIdText(p) \o <<"_", "v">> \o ToDecimal(version) \o <<"_">>
        \o ToDecimal(now) \o TxtSuffix

StartsWith(s, prefix) ==
    Len(prefix) <= Len(s) /\ SubSeq(s, 1, Len(prefix)) = prefix

EndsWith(s, suffix) ==
    Len(suffix) <= Len(s) /\ SubSeq(s, Len(s) - Len(suffix) + 1, Len(s)) = suffix

\* historyFiles.filter(f => f.startsWith(`${promptId}_v`) && f.endsWith('.txt'))
PromptHistoryFiles(hist, p) ==
    {f \in DOMAIN hist :
        StartsWith(f, PromptIdText(p) \o <<"_", "v">>) /\ EndsWith(f, TxtSuffix)}

\* versions.sort((a, b) => b.version - a.version) over the files read
RECURSIVE SortByVersionDescending(_, _)
SortByVersionDescending(hist, files) ==
    IF files = {} THEN <<>>
    ELSE LET f == CHOOSE f \in files :
                      \A g \in files : hist[f].version >= hist[g].version
         IN  <<hist[f]>> \o SortByVersionDescending(hist, files \ {f})

getPromptVersions(hist, p) ==
    SortByVersionDescending(hist, PromptHistoryFiles(hist, p))

\* versionData: the version and the content before the update
VersionData(version, currentContent) ==
    [version |-> version, content |-> currentContent]

WriteFile(dir, name, data) ==
    [f \in (DOMAIN dir) \cup {name} |-> IF f = name THEN data ELSE dir[f]]

\* Contents given to updatePrompt
NewContents == {"Extract C4, revised", ""}

\* updatePrompt on a prompt of metadata.json
UpdatePrompt(p, newContent, now) ==
    /\ prompts[p].registered
    /\ prompts[p].version < MaxVersion
    /\ LET currentContent ==
               IF prompts[p].content = NoFile THEN "" ELSE prompts[p].content
       IN  history' = WriteFile(history,
                                HistoryFilename(p, prompts[p].version, now),
                                VersionData(prompts[p].version, currentContent))
    /\ prompts' = [prompts EXCEPT ![p] =
                       [registered |-> TRUE, content |-> newContent,
                        version |-> prompts[p].version + 1]]
    /\ UNCHANGED <<pc, projectId, requirements, response, architecture, result,
                   store, loaded, counters, calls>>

\* rollbackToVersion: versions.find(v => v.version === targetVersion), then
\* updatePrompt with its content. readdirSync fixes no order among the files
\* of one version, so any of them can be the one found.
RollbackToVersion(p, targetVersion, now) ==
    \E f \in PromptHistoryFiles(history, p) :
        /\ history[f].version = targetVersion
        /\ UpdatePrompt(p, history[f].content, now)

----------------------------------------------------------------------------
(* Outcomes of openai.chat.completions.create *)

ParsedValues == CompleteArchs \cup IncompleteArchs \cup {EmptyObject}

Responses ==
    {[kind |-> "error"], [kind |-> "timeout"], [kind |-> "empty"],
     [kind |-> "text", valid |-> FALSE]}
    \cup {[kind |-> "text", valid |-> TRUE, value |-> v] : v \in ParsedValues}

\* The request failed or its text is not JSON: JSON.parse or the call throws
\* inside the try block of extractArchitecture.
CallFailed(resp) ==
    \/ resp.kind \in {"error", "timeout"}
    \/ resp.kind = "text" /\ ~resp.valid

\* The value extractArchitecture resolves to.
extractArchitecture(resp) ==
    IF CallFailed(resp) THEN getFallbackArchitecture
    ELSE IF resp.kind = "empty" THEN EmptyObject
    ELSE resp.value

BuildThrows(arch) ==
    Level1Throws(arch) \/ Level2Throws(arch) \/ Level3Throws(arch)

BuildDiagrams(arch, reqs) ==
    <<buildLevel1Diagram(arch, reqs)>>
    \o buildLevel2Diagrams(arch, reqs)
    \o buildLevel3Diagrams(arch, reqs)

----------------------------------------------------------------------------
(* FileService: the counters of .specforge and the specification ids *)

MaxCalls == 3       \* calls of the file service in one behaviour

\* The values of SpecificationType
DeclaredTypes == {"USER_STORY", "FUNCTIONAL", "SUCCESS_CRITERIA", "NON_FUNCTIONAL"}

\* The type of the request body or of the parsed LLM answer is a string that
\* nothing checks against the enum.
SpecTypes == DeclaredTypes \cup {"TECHNICAL", "CONSTRAINT"}

\* Numbers of JavaScript as they occur in the counters
JsNumber(n)  == [num |-> n]
JsNaN        == [kind |-> "NaN"]
JsNull       == [kind |-> "null"]
JsUndefined  == [kind |-> "undefined"]

\* v + 1: undefined + 1 is NaN, null + 1 is 1
PlusOne(v) ==
    IF Has(v, "num") THEN JsNumber(v.num + 1)
    ELSE IF v = JsNull THEN JsNumber(1)
    ELSE JsNaN

\* JSON.parse(JSON.stringify(v)) of a property value: NaN is written as null
JsonValue(v) == IF v = JsNaN THEN JsNull ELSE v

\* counter.toString()
NumberToString(v) ==
    IF Has(v, "num") THEN ToDecimal(v.num) ELSE <<"N", "a", "N">>

\* s.padStart(5, '0')
RECURSIVE PadStart(_, _, _)
PadStart(s, length, fill) ==
    IF Len(s) >= length THEN s ELSE PadStart(<<fill>> \o s, length, fill)

getTypePrefix(type) ==
    CASE type = "USER_STORY"       -> <<"U", "S">>
      [] type = "FUNCTIONAL"       -> <<"F", "R">>
      [] type = "SUCCESS_CRITERIA" -> <<"S", "C">>
      [] type = "NON_FUNCTIONAL"   -> <<"N", "F", "R">>
      [] OTHER                     -> <<"S", "P", "E", "C">>

\* `${typePrefix}-${paddedNumber}`
SpecificationId(type, counter) ==
    getTypePrefix(type) \o <<"-">> \o PadStart(NumberToString(counter), 5, "0")

\* counters of initializeProject: the four declared types at 0
InitCounters ==
    [t \in SpecTypes |-> IF t \in DeclaredTypes THEN JsNumber(0) ELSE JsUndefined]

\* generateNextSpecificationId(projectPath, type) on the initialized project
GenerateNextSpecificationId(type) ==
    /\ Len(calls) < MaxCalls
    /\ LET counter == PlusOne(counters[type])
       IN  /\ counters' = [counters EXCEPT ![type] = JsonValue(counter)]
           /\ calls' = Append(calls, [op |-> "generate", type |-> type,
                                      id |-> SpecificationId(type, counter)])
    /\ UNCHANGED <<prompts, history, pc, projectId, requirements, response,
                   architecture, result, store, loaded>>

\* addSpecification(projectPath, specification): config.counters[type]++
AddSpecification(type) ==
    /\ Len(calls) < MaxCalls
    /\ counters' = [counters EXCEPT ![type] = JsonValue(PlusOne(counters[type]))]
    /\ calls' = Append(calls, [op |-> "add", type |-> type])
    /\ UNCHANGED <<prompts, history, pc, projectId, requirements, response,
                   architecture, result, store, loaded>>

----------------------------------------------------------------------------
(* generateC4Diagrams *)

RunIds == {1, 2}

\* No run started, no diagram saved, no prompt updated
InitIdle ==
    /\ history = <<>>
    /\ counters = InitCounters
    /\ calls = <<>>
    /\ loaded = None
    /\ pc = [r \in RunIds |-> "idle"]
    /\ projectId = [r \in RunIds |-> Undefined]
    /\ requirements = [r \in RunIds |-> <<>>]
    /\ response = [r \in RunIds |-> None]
    /\ architecture = [r \in RunIds |-> None]
    /\ result = [r \in RunIds |-> [status |-> "pending"]]
    /\ store = [p \in ProjectIds |-> EmptyDir]

Init ==
    /\ prompts \in PromptDirs
    /\ InitIdle

\* generateC4Diagrams up to the await of the chat completion: the prompt
\* template is read first, and a missing or empty template rejects the call.
Start(r, p, reqs) ==
    /\ pc[r] = "idle"
    /\ projectId' = [projectId EXCEPT ![r] = p]
    /\ requirements' = [requirements EXCEPT ![r] = reqs]
    /\ IF Falsy(getPromptContent(prompts, ArchitecturePromptId))
       THEN /\ pc' = [pc EXCEPT ![r] = "failed"]
            /\ result' = [result EXCEPT ![r] =
                   [status |-> "rejected", error |-> "Architecture prompt not found"]]
       ELSE /\ pc' = [pc EXCEPT ![r] = "extracting"]
            /\ result' = result
    /\ UNCHANGED <<prompts, history, response, architecture, store, loaded, counters, calls>>

\* The chat completion settles with resp; the rest of generateC4Diagrams runs
\* to its end: parse or fall back, build the three levels, save, return.
ExtractionSettles(r, resp) ==
    /\ pc[r] = "extracting"
    /\ response' = [response EXCEPT ![r] = resp]
    /\ LET arch == extractArchitecture(resp)
           reqs == requirements[r]
       IN  /\ architecture' = [architecture EXCEPT ![r] = arch]
           /\ IF BuildThrows(arch)
              THEN /\ pc' = [pc EXCEPT ![r] = "failed"]
                   /\ result' = [result EXCEPT ![r] =
                          [status |-> "rejected", error |-> "TypeError"]]
                   /\ store' = store
              ELSE LET diagrams == BuildDiagrams(arch, reqs)
                   IN  /\ pc' = [pc EXCEPT ![r] = "done"]
                       /\ result' = [result EXCEPT ![r] =
                              [status |-> "returned", diagrams |-> diagrams]]
                       /\ store' = [store EXCEPT ![DiagramDir(projectId[r])] =
                              saveDiagrams(store[DiagramDir(projectId[r])], diagrams)]
    /\ UNCHANGED <<prompts, history, projectId, requirements, loaded, counters, calls>>

\* One call of generateC4Diagrams.
Next ==
    \/ \E p \in ProjectIds, reqs \in ReqLists : Start(1, p, reqs)
    \/ \E resp \in Responses : ExtractionSettles(1, resp)

Spec == Init /\ [][Next]_vars

----------------------------------------------------------------------------
(* The diagram store under failing writes, reloads and successive runs *)

\* The chat completion settles, the levels are built, and a writeFileSync of
\* saveDiagrams throws after k bodies: generateC4Diagrams rejects.
ExtractionSettlesWriteFails(r, resp) ==
    /\ pc[r] = "extracting"
    /\ ~BuildThrows(extractArchitecture(resp))
    /\ response' = [response EXCEPT ![r] = resp]
    /\ architecture' = [architecture EXCEPT ![r] = extractArchitecture(resp)]
    /\ pc' = [pc EXCEPT ![r] = "failed"]
    /\ result' = [result EXCEPT ![r] = [status |-> "rejected", error |-> "ENOSPC"]]
    /\ LET diagrams == BuildDiagrams(extractArchitecture(resp), requirements[r])
           dir == DiagramDir(projectId[r])
       IN  \E k \in 0..Len(diagrams) :
               store' = [store EXCEPT ![dir] =
                            saveDiagramsInterrupted(store[dir], diagrams, k)]
    /\ UNCHANGED <<prompts, history, projectId, requirements, loaded, counters, calls>>

\* getDiagrams(p) resolves
Load(p) ==
    /\ loaded' = [projectId |-> p, status |-> "resolved",
                  diagrams |-> getDiagrams(store[DiagramDir(p)])]
    /\ UNCHANGED <<prompts, history, pc, projectId, requirements, response,
                   architecture, result, store, counters, calls>>

\* A body file of a c4-diagrams directory is removed by something other than
\* the service; getDiagrams tests for it with fs.existsSync.
BodyLost(p, id) ==
    /\ id \in DOMAIN store[p].files
    /\ store' = [store EXCEPT ![p].files =
                     [f \in (DOMAIN store[p].files) \ {id} |-> store[p].files[f]]]
    /\ UNCHANGED <<prompts, history, pc, projectId, requirements, response,
                   architecture, result, loaded, counters, calls>>

StoreReqLists == {<<ReqLogin>>, <<ReqLog>>}

StoreResponses == {[kind |-> "error"], [kind |-> "text", valid |-> TRUE, value |-> ArchAuth]}

PromptReady ==
    [registered |-> TRUE, content |-> "Extract C4 from {{TEXT}}", version |-> 1]

InitStore == Init /\ prompts[ArchitecturePromptId] = PromptReady

NextStore ==
    \/ \E r \in RunIds, p \in ProjectIds, reqs \in StoreReqLists : Start(r, p, reqs)
    \/ \E r \in RunIds, resp \in StoreResponses : ExtractionSettles(r, resp)
    \/ \E r \in RunIds, resp \in StoreResponses : ExtractionSettlesWriteFails(r, resp)
    \/ \E p \in ProjectIds : Load(p)

\* Runs of generateC4Diagrams and calls of getDiagrams, with failing writes
SpecStore == InitStore /\ [][NextStore]_vars

DiagramIds ==
    {<<"level1-context">>, <<"level2-containers">>, <<"level3-", "auth">>}

NextDisk ==
    \/ NextStore
    \/ \E p \in ProjectIds, id \in DiagramIds : BodyLost(p, id)

\* The same, on a disk where files can disappear
SpecDisk == InitStore /\ [][NextDisk]_vars

\* Runs that overlap: no chat completion settles before every run has started.
NextRace ==
    \/ \E r \in RunIds, p \in ProjectIds, reqs \in StoreReqLists : Start(r, p, reqs)
    \/ /\ \A q \in RunIds : pc[q] # "idle"
       /\ \E r \in RunIds, resp \in StoreResponses : ExtractionSettles(r, resp)
    \/ \E p \in ProjectIds : Load(p)

SpecRace == InitStore /\ [][NextRace]_vars

----------------------------------------------------------------------------
(* Updates and rollbacks of the prompts *)

InitPrompts ==
    /\ prompts \in [PromptIds -> CreatedPrompts]
    /\ InitIdle

NextPrompts ==
    \/ \E p \in PromptIds, c \in NewContents, now \in Clock : UpdatePrompt(p, c, now)
    \/ \E p \in PromptIds, v \in 1..MaxVersion, now \in Clock :
           RollbackToVersion(p, v, now)

SpecPrompts == InitPrompts /\ [][NextPrompts]_vars

\* createPrompt for an id that metadata.json does not hold
CreatePrompt(p, content) ==
    /\ ~prompts[p].registered
    /\ prompts' = [prompts EXCEPT ![p] =
                       [registered |-> TRUE, content |-> content, version |-> 1]]
    /\ UNCHANGED <<history, pc, projectId, requirements, response, architecture,
                   result, store, loaded, counters, calls>>

\* deletePrompt: the prompt file, the history files whose name starts with
\* `${promptId}_v`, and the entry of metadata.json
DeletePrompt(p) ==
    /\ prompts[p].registered
    /\ prompts' = [prompts EXCEPT ![p] = NotCreated]
    /\ history' = [f \in {g \in DOMAIN history :
                              ~StartsWith(g, PromptIdText(p) \o <<"_", "v">>)}
                      |-> history[f]]
    /\ UNCHANGED <<pc, projectId, requirements, response, architecture, result,
                   store, loaded, counters, calls>>

NextPromptAdmin ==
    \/ NextPrompts
    \/ \E p \in PromptIds, c \in NewContents : CreatePrompt(p, c)
    \/ \E p \in PromptIds : DeletePrompt(p)

\* Prompts are updated, rolled back, deleted and created again
SpecPromptAdmin == InitPrompts /\ [][NextPromptAdmin]_vars

----------------------------------------------------------------------------
(* Calls of the file service on one initialized project *)

NextIds ==
    \/ \E t \in SpecTypes : GenerateNextSpecificationId(t)
    \/ \E t \in SpecTypes : AddSpecification(t)

SpecIds == InitStore /\ [][NextIds]_vars

----------------------------------------------------------------------------
(* Vocabulary of the properties *)

Settled(r)  == pc[r] \in {"done", "failed"}
Returned(r) == result[r].status = "returned"
Rejected(r) == result[r].status = "rejected"

\* The chat completion was made and has settled.
Answered(r) == response[r] # None

AtLevel(ds, n) ==
    LET IsLevel(d) == d.level = n
    IN  SelectSeq(ds, IsLevel)

ElementIdSet(d) == {d.elements[i].id : i \in 1..Len(d.elements)}

ContainerElements(d) ==
    LET IsContainer(e) == e.type = "container"
    IN  SelectSeq(d.elements, IsContainer)

\* needle occurs in hay: hay = prefix \o needle \o suffix
ContainsText(hay, needle) ==
    \E a \in 0..Len(hay), b \in 0..Len(hay) :
        /\ a + Len(needle) + b = Len(hay)
        /\ \A i \in 1..Len(needle) : hay[a + i] = needle[i]

\* The same text up to the case of its letters.
SameIgnoringCase(s, t) ==
    /\ Len(s) = Len(t)
    /\ \A i \in 1..Len(s) : ToLowerChar(s[i]) = ToLowerChar(t[i])

\* k occurs in text, compared case-insensitively.
OccursIn(k, text) ==
    \E a \in 0..Len(text), b \in 0..Len(text) :
        /\ a + Len(k) + b = Len(text)
        /\ SameIgnoringCase(SubSeq(text, a + 1, a + Len(k)), k)

----------------------------------------------------------------------------
(* C1 - Totality.  For every non-empty requirement list and every outcome  *)
(* of the extraction call, generateC4Diagrams returns at least two         *)
(* diagrams, exactly one of level 1 and exactly one of level 2.            *)
C1_Totality ==
    \A r \in RunIds :
        (Answered(r) /\ requirements[r] # <<>>) =>
            /\ Returned(r)
            /\ Len(result[r].diagrams) >= 2
            /\ Len(AtLevel(result[r].diagrams, 1)) = 1
            /\ Len(AtLevel(result[r].diagrams, 2)) = 1

----------------------------------------------------------------------------
(* C2 - Whenever the extraction step fails (service error, timeout,        *)
(* unparseable text, or the prompt template being unavailable),            *)
(* generateC4Diagrams does not fail: the fallback architecture is          *)
(* substituted and diagrams are returned from it.                          *)
PromptUnavailable == Falsy(getPromptContent(prompts, ArchitecturePromptId))

ExtractionStepFailed(r) ==
    \/ PromptUnavailable
    \/ Answered(r) /\ CallFailed(response[r])

C2_ExtractionFailureAbsorbed ==
    \A r \in RunIds :
        (Settled(r) /\ ExtractionStepFailed(r)) =>
            /\ Returned(r)
            /\ architecture[r] = getFallbackArchitecture
            /\ Len(result[r].diagrams) >= 2

----------------------------------------------------------------------------
(* C3 - A response that parses but lacks the system record, the containers *)
(* array or any other required array or map is handled as an extraction    *)
(* failure: generateC4Diagrams returns the diagrams of the fallback path   *)
(* and never throws while building.                                        *)
ParsedIncomplete(r) ==
    /\ Answered(r)
    /\ ~CallFailed(response[r])
    /\ ~IsComplete(extractArchitecture(response[r]))

C3_IncompleteResponseFallsBack ==
    \A r \in RunIds :
        ParsedIncomplete(r) =>
            /\ Returned(r)
            /\ result[r].diagrams = BuildDiagrams(getFallbackArchitecture, requirements[r])

----------------------------------------------------------------------------
(* C4 - When the extraction call fails, generateC4Diagrams returns exactly *)
(* two diagrams and no level-3 diagram, whatever the requirement list:     *)
(* level 1 has exactly the person "user" and the system element, with the  *)
(* single relationship from "user" to the system element's id labelled     *)
(* "Uses"; level 2 has exactly the containers "webapp" and "api" with the  *)
(* single relationship webapp -> api labelled "Makes API calls".           *)
FallbackLevel1Shape(d) ==
    /\ Len(d.elements) = 2
    /\ \E i, j \in 1..Len(d.elements) :
          /\ d.elements[i].type = "person"
          /\ d.elements[i].id = "user"
          /\ d.elements[j].type = "system"
          /\ Len(d.relationships) = 1
          /\ d.relationships[1].from = "user"
          /\ d.relationships[1].to = d.elements[j].id
          /\ d.relationships[1].label = "Uses"

FallbackLevel2Shape(d) ==
    /\ Len(d.elements) = 2
    /\ \A i \in 1..Len(d.elements) : d.elements[i].type = "container"
    /\ ElementIdSet(d) = {"webapp", "api"}
    /\ Len(d.relationships) = 1
    /\ d.relationships[1].from = "webapp"
    /\ d.relationships[1].to = "api"
    /\ d.relationships[1].label = "Makes API calls"

C4_FallbackDiagrams ==
    \A r \in RunIds :
        (Answered(r) /\ CallFailed(response[r])) =>
            /\ Returned(r)
            /\ Len(result[r].diagrams) = 2
            /\ AtLevel(result[r].diagrams, 3) = <<>>
            /\ Len(AtLevel(result[r].diagrams, 1)) = 1
            /\ Len(AtLevel(result[r].diagrams, 2)) = 1
            /\ FallbackLevel1Shape(AtLevel(result[r].diagrams, 1)[1])
            /\ FallbackLevel2Shape(AtLevel(result[r].diagrams, 2)[1])

\* A failed call with a non-empty requirement list has returned.
C4_Witness ==
    \E r \in RunIds :
        /\ Answered(r) /\ CallFailed(response[r])
        /\ Len(requirements[r]) = 2
        /\ Returned(r)

----------------------------------------------------------------------------
(* C5 - as claimed: when the extraction call fails, every container        *)
(* element of the level-2 diagram has empty requirementIds, whatever the   *)
(* titles and descriptions of the requirements.                            *)
C5_FallbackContainersUntraced ==
    \A r \in RunIds :
        (Answered(r) /\ CallFailed(response[r]) /\ Returned(r)) =>
            \A d \in Range(AtLevel(result[r].diagrams, 2)) :
                \A e \in Range(ContainerElements(d)) : e.requirements = <<>>

(* C5 - as amended: when the extraction call fails, a container element of *)
(* the level-2 diagram lists exactly the ids of the requirements whose     *)
(* title or description contains, case-insensitively, one of the fixed     *)
(* responsibilities of that fallback container ("Display UI", "Handle user *)
(* input" for webapp; "Business logic", "Data access" for api), in input   *)
(* order; it is empty only when no requirement contains one.               *)
FallbackKeywords(containerId) ==
    IF containerId = "webapp"
    THEN {<<"d","i","s","p","l","a","y"," ","u","i">>,
          <<"h","a","n","d","l","e"," ","u","s","e","r"," ","i","n","p","u","t">>}
    ELSE {<<"b","u","s","i","n","e","s","s"," ","l","o","g","i","c">>,
          <<"d","a","t","a"," ","a","c","c","e","s","s">>}

C5_FallbackContainersTraced ==
    \A r \in RunIds :
        (Answered(r) /\ CallFailed(response[r]) /\ Returned(r)) =>
            \A d \in Range(AtLevel(result[r].diagrams, 2)) :
                \A e \in Range(ContainerElements(d)) :
                    LET Mentions(q) ==
                            \E k \in FallbackKeywords(e.id) :
                                OccursIn(k, q.title) \/ OccursIn(k, q.description)
                    IN  e.requirements = Map(ReqId, SelectSeq(requirements[r], Mentions))

\* A failed call whose requirement list names a fallback responsibility in
\* one requirement and none in another.
C5_Witness ==
    \E r \in RunIds :
        /\ Answered(r) /\ CallFailed(response[r]) /\ Returned(r)
        /\ requirements[r] = <<ReqLogin, ReqDisplay>>
        /\ \E e \in Range(AtLevel(result[r].diagrams, 2)[1].elements) :
              e.id = "webapp" /\ e.requirements = <<"US-00002">>

----------------------------------------------------------------------------
(* C6 - Relationship closure: in every diagram returned by                 *)
(* generateC4Diagrams, each relationship's from and to is the id of an     *)
(* element of that same diagram.                                           *)
C6_RelationshipClosure ==
    \A r \in RunIds :
        Returned(r) =>
            \A d \in Range(result[r].diagrams) :
                \A i \in 1..Len(d.relationships) :
                    /\ d.relationships[i].from \in ElementIdSet(d)
                    /\ d.relationships[i].to \in ElementIdSet(d)

----------------------------------------------------------------------------
(* C7 - Requirement union law: for every returned diagram, the diagram's   *)
(* requirementReferences is, as a set, the union of the requirements of    *)
(* its elements.                                                           *)
C7_RequirementUnion ==
    \A r \in RunIds :
        Returned(r) =>
            \A d \in Range(result[r].diagrams) :
                Range(d.requirementReferences) =
                    UNION {Range(d.elements[i].requirements) : i \in 1..Len(d.elements)}

----------------------------------------------------------------------------
(* C8 - Child/parent consistency: for every container element of the       *)
(* level-2 diagram whose children list is non-empty there is a level-3     *)
(* diagram of the same run whose parentId is that container's id and whose *)
(* set of element ids is exactly that children list.                       *)
C8_ChildParentConsistency ==
    \A r \in RunIds :
        Returned(r) =>
            \A d2 \in Range(AtLevel(result[r].diagrams, 2)) :
                \A e \in Range(ContainerElements(d2)) :
                    e.children # <<>> =>
                        \E d3 \in Range(AtLevel(result[r].diagrams, 3)) :
                            /\ d3.parentId = e.id
                            /\ ElementIdSet(d3) = Range(e.children)

\* A returned level-2 diagram with a container that has children and one
\* that has none.
C8_Witness ==
    \E r \in RunIds :
        /\ Returned(r)
        /\ \E e, f \in Range(ContainerElements(AtLevel(result[r].diagrams, 2)[1])) :
              /\ Len(e.children) = 2
              /\ f.children = <<>>

----------------------------------------------------------------------------
(* C9 - External-system inclusion rule: a declared external system has an  *)
(* element in the level-2 diagram if and only if its id is the from or the *)
(* to of at least one level-2 relationship.                                *)
C9_ExternalSystemInclusion ==
    \A r \in RunIds :
        Returned(r) =>
            LET d2 == AtLevel(result[r].diagrams, 2)[1]
                declared == Range(architecture[r].level1_context.external_systems)
            IN  \A s \in declared :
                    (\E i \in 1..Len(d2.elements) :
                         d2.elements[i].type = "system" /\ d2.elements[i].id = s.id)
                    <=>
                    (\E i \in 1..Len(d2.relationships) :
                         d2.relationships[i].from = s.id \/ d2.relationships[i].to = s.id)

\* A returned level-2 diagram that includes one declared external system,
\* named only as the target of a relationship, and omits another.
C9_Witness ==
    \E r \in RunIds :
        /\ Returned(r)
        /\ architecture[r] = ArchAuth
        /\ "idp" \in ElementIdSet(AtLevel(result[r].diagrams, 2)[1])
        /\ "mail" \notin ElementIdSet(AtLevel(result[r].diagrams, 2)[1])

----------------------------------------------------------------------------
(* C10 - Traceability heuristic.  The elements of the level-2 diagram      *)
(* start with one element per declared container, in order, and the        *)
(* elements of a level-3 diagram are one per declared component of its     *)
(* parent, in order; Traced(Assoc) says that each of them lists exactly    *)
(* the ids of the requirements r with Assoc(r, k) for some keyword k of    *)
(* its container (a responsibility) or component (a capability).           *)
Traced(Assoc(_, _), r) ==
    LET arch == architecture[r]
        reqs == requirements[r]
        Ids(keywords) ==
            LET Hit(q) == \E i \in 1..Len(keywords) : Assoc(q, keywords[i])
            IN  Map(ReqId, SelectSeq(reqs, Hit))
    IN  /\ \A d2 \in Range(AtLevel(result[r].diagrams, 2)) :
              \A i \in 1..Len(arch.level2_containers) :
                  d2.elements[i].requirements =
                      Ids(arch.level2_containers[i].responsibilities)
        /\ \A d3 \in Range(AtLevel(result[r].diagrams, 3)) :
              \A j \in 1..Len(d3.elements) :
                  d3.elements[j].requirements =
                      Ids(Get(arch.level3_components, d3.parentId)[j].capabilities)

\* As claimed: k is a substring of r.title or of r.description, or r.title
\* or r.description is a substring of k, case-insensitively.
EitherContains(q, k) ==
    \/ OccursIn(k, q.title) \/ OccursIn(k, q.description)
    \/ OccursIn(q.title, k) \/ OccursIn(q.description, k)

KeywordContained(q, k) ==
    OccursIn(k, q.title) \/ OccursIn(k, q.description)

----------------------------------------------------------------------------
(* C11 - When extraction returns a container with declared components,     *)
(* generateC4Diagrams yields a level-3 diagram whose parentId is the       *)
(* container's id, with one element per declared component in order, and   *)
(* every requirement whose title or description contains a capability of a *)
(* component (case-insensitively) is listed in that component's element.   *)
C11_ComponentDiagramTraced ==
    \A r \in RunIds :
        Returned(r) =>
            \A i \in 1..Len(architecture[r].level2_containers) :
                LET c == architecture[r].level2_containers[i]
                    declared == HasKey(architecture[r].level3_components, c.id)
                    comps == IF declared THEN Get(architecture[r].level3_components, c.id)
                             ELSE <<>>
                IN  comps # <<>> =>
                      \E d3 \in Range(AtLevel(result[r].diagrams, 3)) :
                          /\ d3.parentId = c.id
                          /\ Len(d3.elements) = Len(comps)
                          /\ \A j \in 1..Len(comps) :
                                /\ d3.elements[j].id = comps[j].id
                                /\ \A n \in 1..Len(requirements[r]) :
                                      (\E k \in Range(comps[j].capabilities) :
                                           \/ OccursIn(k, requirements[r][n].title)
                                           \/ OccursIn(k, requirements[r][n].description))
                                      => requirements[r][n].id
                                             \in Range(d3.elements[j].requirements)

\* Scenario B has returned for the single requirement "User login".
C11_Witness ==
    \E r \in RunIds :
        /\ Returned(r)
        /\ architecture[r] = ArchAuth
        /\ requirements[r] = <<ReqLogin>>
        /\ \E d3 \in Range(AtLevel(result[r].diagrams, 3)) :
              /\ d3.parentId = "auth"
              /\ Len(d3.elements) = 2
              /\ d3.elements[1].id = "login-ui"
              /\ "US-00001" \in Range(d3.elements[1].requirements)

----------------------------------------------------------------------------
(* C12 - For every requirement list, also one in which a requirement id    *)
(* occurs more than once, no element of a returned diagram lists the same  *)
(* requirement id twice.                                                   *)
C12_NoRepeatedRequirementId ==
    \A r \in RunIds :
        Returned(r) =>
            \A d \in Range(result[r].diagrams) :
                \A e \in Range(d.elements) :
                    \A i, j \in 1..Len(e.requirements) :
                        i # j => e.requirements[i] # e.requirements[j]

----------------------------------------------------------------------------
(* C15 - generateC4Diagrams called with an empty requirement list is       *)
(* rejected before any extraction call is made, and nothing is written to  *)
(* the diagram store.                                                      *)
C15_EmptyListRejected ==
    \A r \in RunIds :
        (pc[r] # "idle" /\ requirements[r] = <<>>) =>
            /\ Rejected(r)
            /\ ~Answered(r)
            /\ store[projectId[r]] = EmptyDir

----------------------------------------------------------------------------
(* C13 - Two-phase write order: saveDiagrams writes every body before the  *)
(* index, so at every point of a save, also after a write has failed and   *)
(* across successive saves for one project, every diagram id listed in the *)
(* persisted index has a persisted body.                                   *)
IndexedIds(dir) ==
    IF dir.index = None THEN {}
    ELSE {dir.index.diagrams[i].id : i \in 1..Len(dir.index.diagrams)}

C13_IndexedBodiesPersisted ==
    \A p \in ProjectIds :
        IndexedIds(store[DiagramDir(p)]) \subseteq DOMAIN store[DiagramDir(p)].files

\* A save failed after its first body, on a directory that holds the index
\* and the bodies of a completed save of another run.
C13_Witness ==
    \E r, q \in RunIds :
        /\ r # q
        /\ projectId[r] = projectId[q]
        /\ Returned(q)
        /\ Rejected(r) /\ result[r].error = "ENOSPC"
        /\ LET dir == store[DiagramDir(projectId[r])]
           IN  /\ dir.index # None
               /\ dir.index.diagrams = Map(IndexEntry, result[q].diagrams)
               /\ dir.files[<<"level1-context">>] # Jsonify(result[q].diagrams[1])

----------------------------------------------------------------------------
(* C14 - When the persisted index lists a diagram id whose body is not on  *)
(* disk, getDiagrams fails with a store-consistency error; it never        *)
(* returns a list that omits an indexed diagram.                           *)
IndexedBodyMissing(dir) ==
    ~(IndexedIds(dir) \subseteq DOMAIN dir.files)

C14_MissingBodyRejectsLoad ==
    [][\A p \in ProjectIds :
          (Load(p) /\ IndexedBodyMissing(store[DiagramDir(p)]))
              => /\ loaded'.status = "rejected"
                 /\ Len(loaded'.diagrams) = Len(store[DiagramDir(p)].index.diagrams)]_vars

----------------------------------------------------------------------------
(* C16 - Save/load round trip with wholesale replacement: once a run has   *)
(* saved its diagrams D, getDiagrams of the project returns the diagrams   *)
(* of D in the order of D (in their JSON form, where a property holding    *)
(* undefined is an absent property), and no diagram of an earlier run that *)
(* is not in D.                                                            *)
SaveCompletes(r) == pc[r] = "extracting" /\ pc'[r] = "done"

C16_SaveLoadRoundTrip ==
    [][\A r \in RunIds :
          SaveCompletes(r) =>
              getDiagrams(store'[DiagramDir(projectId[r])])
                  = Map(Jsonify, result'[r].diagrams)]_vars

\* A run that returned two diagrams saved after a run that returned three:
\* the level 3 body of the earlier run is still a file of the directory,
\* and getDiagrams was called and resolved to the two.
C16_Witness ==
    \E r, q \in RunIds :
        /\ r # q
        /\ projectId[r] = projectId[q]
        /\ Returned(r) /\ Len(result[r].diagrams) = 2
        /\ Returned(q) /\ Len(result[q].diagrams) = 3
        /\ <<"level3-", "auth">> \in DOMAIN store[DiagramDir(projectId[r])].files
        /\ loaded # None
        /\ loaded.projectId = projectId[r]
        /\ loaded.diagrams = Map(Jsonify, result[r].diagrams)

----------------------------------------------------------------------------
(* C17 - Two runs for one project that are both suspended at the           *)
(* extraction call and then both complete leave the store with the diagram *)
(* set of the run whose save completed last: getDiagrams returns that      *)
(* run's index entries with that run's bodies, never a mix of both runs.   *)
Overlapped(r, q) ==
    /\ r # q
    /\ projectId[r] = projectId[q]
    /\ pc[q] = "done"

C17_LastSaveWins ==
    [][\A r, q \in RunIds :
          (Overlapped(r, q) /\ SaveCompletes(r)) =>
              LET dir == store'[DiagramDir(projectId[r])]
              IN  /\ dir.index.diagrams = Map(IndexEntry, result'[r].diagrams)
                  /\ \A i \in 1..Len(result'[r].diagrams) :
                         dir.files[result'[r].diagrams[i].id]
                             = Jsonify(result'[r].diagrams[i])
                  /\ getDiagrams(dir) = Map(Jsonify, result'[r].diagrams)]_vars

\* Both runs returned three diagrams with the same ids and different bodies,
\* and the directory holds the set of one of them.
C17_Witness ==
    \E r, q \in RunIds :
        /\ Overlapped(r, q)
        /\ pc[r] = "done"
        /\ Len(result[r].diagrams) = 3 /\ Len(result[q].diagrams) = 3
        /\ \A i \in 1..3 : result[r].diagrams[i] # result[q].diagrams[i]
        /\ getDiagrams(store[DiagramDir(projectId[r])])
               = Map(Jsonify, result[r].diagrams)

----------------------------------------------------------------------------
(* C18 - A run for project A leaves the persisted index and the diagram    *)
(* bodies of every other project B unchanged, under any interleaving of    *)
(* runs for A and B.                                                       *)
StepOfRun(r) == pc'[r] # pc[r]

C18_OtherProjectsUnchanged ==
    [][\A r \in RunIds, b \in ProjectIds :
          (StepOfRun(r) /\ projectId'[r] # b) =>
              store'[DiagramDir(b)] = store[DiagramDir(b)]]_vars

\* Two runs for different projects have both saved, and each directory holds
\* the diagrams of its own run.
C18_Witness ==
    \E r, q \in RunIds :
        /\ projectId[r] = "projA" /\ projectId[q] = "projB"
        /\ Returned(r) /\ Returned(q)
        /\ result[r].diagrams # result[q].diagrams
        /\ getDiagrams(store[DiagramDir("projA")]) = Map(Jsonify, result[r].diagrams)
        /\ getDiagrams(store[DiagramDir("projB")]) = Map(Jsonify, result[q].diagrams)

----------------------------------------------------------------------------
(* C20 - Prompt versioning: every successful updatePrompt, and every       *)
(* rollbackToVersion through it, stores the content and the version number *)
(* the prompt had before the call as a history entry and increases the     *)
(* version number by exactly 1; so the version number never decreases and  *)
(* getPromptVersions holds one entry for every version number the prompt   *)
(* has left behind.                                                        *)
EntriesOfVersion(p, v) ==
    LET versions == getPromptVersions(history, p)
    IN  {i \in 1..Len(versions) : versions[i].version = v}

ContentBefore(p) ==
    IF prompts[p].content = NoFile THEN "" ELSE prompts[p].content

UpdateRecordsPrevious ==
    \A p \in PromptIds :
        prompts'[p] # prompts[p] =>
            /\ prompts'[p].version = prompts[p].version + 1
            /\ \E f \in PromptHistoryFiles(history', p) :
                   history'[f] = [version |-> prompts[p].version,
                                  content |-> ContentBefore(p)]

OneEntryPerVersionLeftBehind ==
    \A p \in PromptIds :
        \A v \in 1..(prompts[p].version - 1) :
            Cardinality(EntriesOfVersion(p, v)) = 1

C20_PromptVersioning ==
    /\ [][UpdateRecordsPrevious]_vars
    /\ []OneEntryPerVersionLeftBehind

----------------------------------------------------------------------------
(* C21 - Identifier collisions are resolved by keeping the first           *)
(* declaration: in every returned diagram the element ids are pairwise     *)
(* distinct, and of two containers, or two components of one container,    *)
(* declared with the same id the diagram holds only the element built from *)
(* the first.                                                              *)
DistinctElementIds(d) ==
    \A i, j \in 1..Len(d.elements) :
        i # j => d.elements[i].id # d.elements[j].id

C21_FirstDeclarationKept ==
    \A r \in RunIds :
        Returned(r) =>
            \A d \in Range(result[r].diagrams) :
                /\ DistinctElementIds(d)
                /\ d.level = 2 =>
                       \A e \in Range(ContainerElements(d)) :
                           e.name = FindContainer(architecture[r], e.id).name

----------------------------------------------------------------------------
(* C22 - The level-1 diagram never contains an unresolved self-reference:  *)
(* no relationship of it has the placeholder "system" as an endpoint, each *)
(* occurrence being rewritten to the id of the synthesized system element. *)
Placeholder == "system"

C22_NoUnresolvedSelfReference ==
    \A r \in RunIds :
        Returned(r) =>
            \A rel \in Range(result[r].diagrams[1].relationships) :
                rel.from # Placeholder /\ rel.to # Placeholder

----------------------------------------------------------------------------
(* C23 - buildLevel3Diagrams produces exactly one level-3 diagram for each *)
(* declared container with at least one declared component, and none for  *)
(* any other container or for a key of the component map that names no     *)
(* declared container; so there are as many level-3 diagrams as declared   *)
(* containers with at least one component.                                 *)
HasComponents(arch, c) ==
    /\ HasKey(arch.level3_components, c.id)
    /\ Get(arch.level3_components, c.id) # <<>>

ContainersWithComponents(arch) ==
    {i \in 1..Len(arch.level2_containers) : HasComponents(arch, arch.level2_containers[i])}

C23_OneComponentDiagramPerContainer ==
    \A r \in RunIds :
        Returned(r) =>
            LET arch   == architecture[r]
                level3 == AtLevel(result[r].diagrams, 3)
            IN  /\ \A i \in ContainersWithComponents(arch) :
                       Cardinality({n \in 1..Len(level3) :
                           level3[n].parentId = arch.level2_containers[i].id}) = 1
                /\ \A n \in 1..Len(level3) :
                       \E i \in ContainersWithComponents(arch) :
                           level3[n].parentId = arch.level2_containers[i].id
                /\ Len(level3) = Cardinality(ContainersWithComponents(arch))

----------------------------------------------------------------------------
(* C24 - childIds is present only on elements that own a lower-level       *)
(* diagram: a container element has childIds if and only if the container  *)
(* has at least one component in the component map (the field is absent,   *)
(* not an empty list, for a container without components), and person,     *)
(* external-system and component elements never have childIds.             *)
IsSynthesizedSystem(d, e) == d.level = 1 /\ e.type = "system" /\ e.id = SystemId

ComponentIdsOf(arch, containerId) ==
    IF HasKey(arch.level3_components, containerId)
    THEN Map(ElementId, Get(arch.level3_components, containerId))
    ELSE <<>>

C24_ChildIdsOnlyOnOwners ==
    \A r \in RunIds :
        Returned(r) =>
            \A d \in Range(result[r].diagrams) :
                \A e \in Range(d.elements) :
                    IF e.type = "container"
                    THEN Has(e, "children") <=> ComponentIdsOf(architecture[r], e.id) # <<>>
                    ELSE IsSynthesizedSystem(d, e) \/ ~Has(e, "children")

(* C24, amended - a container element always has childIds: the ids of the  *)
(* components declared under its id in the component map, the empty list   *)
(* when there is none; person, external-system and component elements      *)
(* never have childIds.                                                    *)
C24_ChildIdsEmptyWithoutComponents ==
    \A r \in RunIds :
        Returned(r) =>
            \A d \in Range(result[r].diagrams) :
                \A e \in Range(d.elements) :
                    IF e.type = "container"
                    THEN /\ Has(e, "children")
                         /\ e.children = ComponentIdsOf(architecture[r], e.id)
                    ELSE IsSynthesizedSystem(d, e) \/ ~Has(e, "children")

\* Scenario B has returned: container auth lists its two components, and
\* container db, which has none, has the empty list.
C24_Witness ==
    \E r \in RunIds :
        /\ Returned(r)
        /\ architecture[r] = ArchAuth
        /\ LET cs == ContainerElements(result[r].diagrams[2])
           IN  /\ cs[1].id = "auth" /\ cs[1].children = <<"login-ui", "auth-api">>
               /\ cs[2].id = "db" /\ cs[2].children = <<>>

----------------------------------------------------------------------------
(* C25 - Cross-level linkage of the system element: the level-1 diagram    *)
(* has exactly one synthesized system element, with the fixed id; its      *)
(* requirementIds holds every input requirement id, its childIds is        *)
(* exactly the list of the container ids of the level-2 diagram, and the   *)
(* parentId of the level-2 diagram is that element's id.                   *)
C25_SystemElementLinkage ==
    \A r \in RunIds :
        Returned(r) =>
            LET level1  == result[r].diagrams[1]
                level2  == result[r].diagrams[2]
                systems == {i \in 1..Len(level1.elements) :
                               level1.elements[i].id = "main-system"}
            IN  /\ systems = {1}
                /\ level1.elements[1].type = "system"
                /\ level1.elements[1].requirements = Map(ReqId, requirements[r])
                /\ level1.elements[1].children
                       = Map(ElementId, ContainerElements(level2))
                /\ level2.level = 2
                /\ level2.parentId = level1.elements[1].id

\* A run over two requirements has returned for an architecture of two
\* containers.
C25_Witness ==
    \E r \in RunIds :
        /\ Returned(r)
        /\ architecture[r] = ArchTwoTier
        /\ Len(requirements[r]) = 2
        /\ result[r].diagrams[1].elements[1].children = <<"web", "api">>
        /\ Len(result[r].diagrams[1].elements[1].requirements) = 2

----------------------------------------------------------------------------
(* C26 - The rendered text of each diagram has one declaration line per    *)
(* element of the diagram, in the order people, external systems, system   *)
(* for level 1, containers then referenced external systems for level 2,   *)
(* and components for level 3, followed by a blank line and then exactly   *)
(* one relationship line per relationship, in the order of the diagram's   *)
(* relationship list.                                                      *)
DeclarationWords == {"System", "Person", "System_Ext", "Container", "Component"}

DeclarationLines(text) ==
    LET IsDeclaration(line) == line # <<>> /\ Head(line) \in DeclarationWords
    IN  SelectSeq(text, IsDeclaration)

DeclaredId(line) == line[2]

OfType(elements, type) ==
    LET Is(e) == e.type = type
    IN  SelectSeq(elements, Is)

\* The text ends with a blank line followed by one line per relationship.
RelationshipBlock(d) ==
    LET text == d.mermaidCode
        n    == Len(d.relationships)
    IN  /\ Len(text) > n
        /\ text[Len(text) - n] = <<>>
        /\ \A i \in 1..n :
               LET line == text[Len(text) - n + i]
               IN  /\ Len(line) >= 4
                   /\ line[1] = "Rel"
                   /\ line[2] = d.relationships[i].from
                   /\ line[3] = d.relationships[i].to
                   /\ line[4] = d.relationships[i].label
        /\ \A i \in 1..(Len(text) - n) :
               text[i] = <<>> \/ Head(text[i]) # "Rel"

SystemLast(elements) ==
    LET IsMain(e)  == e.type = "system" /\ e.id = SystemId
        IsOther(e) == e.type = "system" /\ e.id # SystemId
    IN  OfType(elements, "person") \o SelectSeq(elements, IsOther)
            \o SelectSeq(elements, IsMain)

----------------------------------------------------------------------------
(* C27 - After every completed save the persisted index is rebuilt in full *)
(* and has exactly one entry per saved diagram, in the order the diagrams  *)
(* were generated (level 1, then level 2, then level 3), each entry        *)
(* carrying the id, level, kind, title and parentId of its diagram.        *)
EntryCarries(entry, d) ==
    /\ entry.id = d.id
    /\ entry.level = d.level
    /\ entry.type = d.type
    /\ entry.title = d.title
    /\ Has(entry, "parentId") <=> Has(d, "parentId")
    /\ Has(d, "parentId") => entry.parentId = d.parentId

LevelsInOrder(entries) ==
    \A i \in 1..Len(entries) :
        entries[i].level = (IF i = 1 THEN 1 ELSE IF i = 2 THEN 2 ELSE 3)

C27_IndexRebuiltInFull ==
    [][\A r \in RunIds :
          SaveCompletes(r) =>
              LET entries  == store'[DiagramDir(projectId[r])].index.diagrams
                  diagrams == result'[r].diagrams
              IN  /\ Len(entries) = Len(diagrams)
                  /\ \A i \in 1..Len(diagrams) : EntryCarries(entries[i], diagrams[i])
                  /\ LevelsInOrder(entries)]_vars

\* The index of a directory that held three entries has the two entries of
\* the run that saved last.
C27_Witness ==
    \E r, q \in RunIds :
        /\ r # q
        /\ projectId[r] = projectId[q]
        /\ Returned(r) /\ Len(result[r].diagrams) = 2
        /\ Returned(q) /\ Len(result[q].diagrams) = 3
        /\ LET dir == store[DiagramDir(projectId[r])]
           IN  /\ Len(dir.index.diagrams) = 2
               /\ dir.index.diagrams[2].parentId = "main-system"
               /\ Cardinality(DOMAIN dir.files) = 3

----------------------------------------------------------------------------
(* C28 - Within one run all diagram ids are pairwise distinct (the level-1 *)
(* id, the level-2 id and one id per level-3 container), so the save never *)
(* overwrites the body of one diagram of the run with the body of another  *)
(* and the index never lists the same id twice.                            *)
C28_DistinctDiagramIds ==
    \A r \in RunIds :
        Returned(r) =>
            LET diagrams == result[r].diagrams
                dir      == store[DiagramDir(projectId[r])]
            IN  /\ \A i, j \in 1..Len(diagrams) :
                       i # j => diagrams[i].id # diagrams[j].id
                /\ \A i \in 1..Len(diagrams) :
                       dir.files[diagrams[i].id] = Jsonify(diagrams[i])
                /\ \A i, j \in 1..Len(dir.index.diagrams) :
                       i # j => dir.index.diagrams[i].id # dir.index.diagrams[j].id

\* A run has returned four diagrams, two of them of level 3, and the
\* directory holds four bodies.
C28_Witness ==
    \E r \in RunIds :
        /\ Returned(r)
        /\ Len(AtLevel(result[r].diagrams, 3)) = 2
        /\ Cardinality(DOMAIN store[DiagramDir(projectId[r])].files) = 4
        /\ Len(store[DiagramDir(projectId[r])].index.diagrams) = 4

----------------------------------------------------------------------------
(* C29 - For any sequence of generateNextSpecificationId and               *)
(* addSpecification calls on one initialized project, no two calls of      *)
(* generateNextSpecificationId return the same id, and the ids issued for  *)
(* one specification type carry strictly increasing numbers.               *)
Issued ==
    LET IsGenerate(c) == c.op = "generate"
    IN  SelectSeq(calls, IsGenerate)

DigitValue(ch) ==
    CASE ch = "0" -> 0 [] ch = "1" -> 1 [] ch = "2" -> 2 [] ch = "3" -> 3
      [] ch = "4" -> 4 [] ch = "5" -> 5 [] ch = "6" -> 6 [] ch = "7" -> 7
      [] ch = "8" -> 8 [] ch = "9" -> 9 [] OTHER -> -1

\* The number an id carries after its prefix; -1 when it is not a number
RECURSIVE ParseDecimal(_)
ParseDecimal(s) ==
    IF s = <<>> THEN 0
    ELSE LET d    == DigitValue(s[Len(s)])
             rest == ParseDecimal(SubSeq(s, 1, Len(s) - 1))
         IN  IF d < 0 \/ rest < 0 THEN -1 ELSE 10 * rest + d

IdNumber(c) ==
    ParseDecimal(SubSeq(c.id, Len(getTypePrefix(c.type)) + 2, Len(c.id)))

C29_IssuedIdsUniqueAndIncreasing ==
    \A i, j \in 1..Len(Issued) :
        i < j =>
            /\ Issued[i].id # Issued[j].id
            /\ Issued[i].type = Issued[j].type =>
                   /\ IdNumber(Issued[i]) >= 0
                   /\ IdNumber(Issued[i]) < IdNumber(Issued[j])

----------------------------------------------------------------------------
(* C30 - Prompt isolation: deletePrompt(p) removes only prompt p, its file *)
(* and its own version history, leaving the metadata, the content and the  *)
(* version history of every other prompt unchanged; and                    *)
(* getPromptVersions(p) returns only versions that were recorded by        *)
(* updates of p, for any set of prompt ids.                                *)
\* The history files that updates of prompt p write
OwnHistoryFiles(hist, p) ==
    {f \in DOMAIN hist :
        \E v \in 1..MaxVersion, now \in Clock : f = HistoryFilename(p, v, now)}

DeleteLeavesOthers ==
    \A p \in PromptIds :
        DeletePrompt(p) =>
            \A q \in PromptIds \ {p} :
                /\ prompts'[q] = prompts[q]
                /\ \A f \in OwnHistoryFiles(history, q) :
                       f \in DOMAIN history' /\ history'[f] = history[f]

OnlyOwnVersions ==
    \A p \in PromptIds :
        PromptHistoryFiles(history, p) \subseteq OwnHistoryFiles(history, p)

C30_PromptIsolation ==
    /\ [][DeleteLeavesOthers]_vars
    /\ []OnlyOwnVersions

====
